---- MODULE Spec2Model ----
(***************************************************************************)
(* Model of the kube-state-metrics collectors package: the pod, deployment *)
(* and namespace metric family generators, their default-label wrappers    *)
(* and the list/watch pair that feeds each kind's store.                   *)
(*                                                                         *)
(* A Go slice is modelled as a header (backing array, len, cap).  The      *)
(* three package-level default label slices live in the variable heap, so  *)
(* that an append that writes into a shared backing array is visible.      *)
(* float64 values are modelled by the integers they hold.                  *)
(***************************************************************************)
EXTENDS Integers, Sequences, FiniteSets, TLC

VARIABLES
    obj,        \* the cached object the aggregator is currently mapping
    out,        \* out[name]: result of the registered generator `name` on obj
    heap,       \* heap[ref]: backing array of the package-level slice `ref`
    server,     \* server[id]: resource version of object id on the API server, 0 = absent
    rv,         \* the API server's current resource version
    store,      \* store[id]: version of object id held by the store, 0 = absent
    watermark,  \* resource version of the last list / applied event
    stream,     \* "init", "watching" or "terminated"
    events,     \* events of the open watch not yet delivered
    listed,     \* "no", or in the state that follows a list: "start", "restart", "resync"
    cause,      \* why the watch stream last terminated
    dropped,    \* identifiers the last list removed from the store
    lw          \* the list/watch pair of the synchronisation task: its kind and namespace

vars ==
    <<obj, out, heap, server, rv, store, watermark, stream, events, listed, cause,
      dropped, lw>>
genVars == <<obj, out, heap>>
syncVars == <<server, rv, store, watermark, stream, events, listed, cause, dropped, lw>>

----------------------------------------------------------------------------
(* Bounds of the model *)

MaxConditions == 2
MaxOwners == 2
MaxContainers == 2
MaxReplicas == 1
MaxRV == 4
MaxEvents == 2

----------------------------------------------------------------------------
(* Go values *)

SeqsUpTo(S, n) == UNION {[1..k -> S] : k \in 0..n}

\* a nil pointer, and a pointer to v
NilPtr(zero) == [nil |-> TRUE, v |-> zero]
PtrTo(x) == [nil |-> FALSE, v |-> x]

\* strconv.FormatBool
FormatBool(b) == IF b THEN "true" ELSE "false"

\* float64(x) of an integer of the model's range is that integer
Float64(x) == x

\* A slice that owns its backing array: nobody else can write to it.
Own(s) == [ref |-> "own", len |-> Len(s), elems |-> s]

\* The elements a slice header denotes, given the shared backing arrays.
Read(s, h) ==
    IF s.ref = "own" THEN s.elems ELSE SubSeq(h[s.ref], 1, s.len)

\* A package-level composite literal []string{...}: len = cap = number of elements.
SliceLiteral(r, s) == [ref |-> r, len |-> Len(s), cap |-> Len(s), init |-> s]

\* Go's append(s, xs...) for a package-level slice s: in place when the
\* capacity suffices (the result shares s's backing array), else a fresh array.
GoAppend(s, xs, h) ==
    IF s.len + Len(xs) <= s.cap
    THEN [slice |-> [ref |-> s.ref, len |-> s.len + Len(xs), elems |-> <<>>],
          heap  |-> [h EXCEPT ![s.ref] =
                        [i \in 1..s.cap |->
                            IF i > s.len /\ i <= s.len + Len(xs)
                            THEN xs[i - s.len] ELSE @[i]]]]
    ELSE [slice |-> Own(SubSeq(h[s.ref], 1, s.len) \o xs), heap |-> h]

----------------------------------------------------------------------------
(* metrics.Metric, metrics.Family and the outcome of a generator call *)

Metric(name, keys, values, value) ==
    [Name |-> name, LabelKeys |-> Own(keys), LabelValues |-> values, Value |-> value]

Ok(family) == [status |-> "ok", family |-> family]
Panic == [status |-> "panic", family |-> <<>>]
NotRun == [status |-> "notrun", family |-> <<>>]

\* boolFloat64: 1 for true, 0 for false
boolFloat64(b) == IF b THEN 1 ELSE 0

RECURSIVE Concat(_)
Concat(ss) == IF ss = <<>> THEN <<>> ELSE Head(ss) \o Concat(Tail(ss))

----------------------------------------------------------------------------
(* Package-level variables of the pod collector *)

\* Faulty variant: the default labels built with spare capacity (as by make or append)
descPodLabelsDefaultLabelsSpare ==
    [ref |-> "descPodLabelsDefaultLabels", len |-> 2, cap |-> 8,
     init |-> <<"namespace", "pod">>]

descPodLabelsDefaultLabels ==
    SliceLiteral("descPodLabelsDefaultLabels", <<"namespace", "pod">>)

containerWaitingReasons ==
    <<"ContainerCreating", "CrashLoopBackOff", "CreateContainerConfigError",
      "ErrImagePull", "ImagePullBackOff">>

\* v1.PodPhase values, v1.PodConditionType values and v1.ConditionStatus values
PodPending == "Pending"
PodSucceeded == "Succeeded"
PodFailed == "Failed"
PodRunning == "Running"
PodUnknown == "Unknown"
PodReady == "Ready"
PodScheduled == "PodScheduled"
ConditionTrue == "True"
ConditionFalse == "False"
ConditionUnknown == "Unknown"

\* node.NodeUnreachablePodReason
NodeUnreachablePodReason == "NodeLost"

----------------------------------------------------------------------------
(* Pod generators (the functions handed to wrapPodFunc) *)

\* Faulty variant of kube_pod_owner: an owner whose Controller is unset gets the sentinel
kube_pod_ownerUnsetAsNone(p) ==
    LET labelKeys == <<"owner_kind", "owner_name", "owner_is_controller">>
        owners == p.OwnerReferences
    IN IF Len(owners) = 0
       THEN [status |-> "ok", family |-> <<[Name |-> "kube_pod_owner",
                LabelKeys |-> Own(labelKeys), LabelValues |-> <<"<none>", "<none>", "<none>">>,
                Value |-> 1]>>]
       ELSE [status |-> "ok", family |-> [i \in 1..Len(owners) |->
                [Name |-> "kube_pod_owner", LabelKeys |-> Own(labelKeys),
                 LabelValues |-> <<owners[i].Kind, owners[i].Name,
                                   IF owners[i].Controller.nil THEN "<none>"
                                   ELSE FormatBool(owners[i].Controller.v)>>,
                 Value |-> 1]]]

\* metav1.GetControllerOf: the first owner reference whose Controller is set and true
GetControllerOf(p) ==
    LET idx == {i \in 1..Len(p.OwnerReferences) :
                    /\ ~p.OwnerReferences[i].Controller.nil
                    /\ p.OwnerReferences[i].Controller.v}
        first == CHOOSE i \in idx : \A j \in idx : i <= j
    IN IF idx = {} THEN NilPtr([Kind |-> "", Name |-> ""])
       ELSE PtrTo(p.OwnerReferences[first])

kube_pod_info(p) ==
    LET createdBy == GetControllerOf(p)
        createdByKind ==
            IF ~createdBy.nil /\ createdBy.v.Kind # "" THEN createdBy.v.Kind ELSE "<none>"
        createdByName ==
            IF ~createdBy.nil /\ createdBy.v.Name # "" THEN createdBy.v.Name ELSE "<none>"
    IN Ok(<<Metric("kube_pod_info",
                   <<"host_ip", "pod_ip", "uid", "node", "created_by_kind", "created_by_name">>,
                   <<p.HostIP, p.PodIP, p.UID, p.NodeName, createdByKind, createdByName>>,
                   1)>>)

kube_pod_owner(p) ==
    LET labelKeys == <<"owner_kind", "owner_name", "owner_is_controller">>
        owners == p.OwnerReferences
    IN IF Len(owners) = 0
       THEN Ok(<<Metric("kube_pod_owner", labelKeys, <<"<none>", "<none>", "<none>">>, 1)>>)
       ELSE Ok([i \in 1..Len(owners) |->
                 IF ~owners[i].Controller.nil
                 THEN Metric("kube_pod_owner", labelKeys,
                             <<owners[i].Kind, owners[i].Name,
                               FormatBool(owners[i].Controller.v)>>, 1)
                 ELSE Metric("kube_pod_owner", labelKeys,
                             <<owners[i].Kind, owners[i].Name, "false">>, 1)])

\* Faulty variant of phases: the raw phase, without the unreachable-node override
phasesRaw(p) ==
    <<[v |-> p.Phase = PodPending, n |-> PodPending],
      [v |-> p.Phase = PodSucceeded, n |-> PodSucceeded],
      [v |-> p.Phase = PodFailed, n |-> PodFailed],
      [v |-> p.Phase = PodRunning, n |-> PodRunning],
      [v |-> p.Phase = PodUnknown, n |-> PodUnknown]>>

\* Faulty variant of kube_pod_status_phase: no early return for an empty phase
kube_pod_status_phaseAlways(p) ==
    [status |-> "ok",
     family |-> [i \in 1..5 |->
        [Name |-> "kube_pod_status_phase", LabelKeys |-> Own(<<"phase">>),
         LabelValues |-> <<phasesRaw(p)[i].n>>,
         Value |-> IF phasesRaw(p)[i].v THEN 1 ELSE 0]]]

\* the override copied from the kubectl printer: deletion pending on an unreachable node
unreachable(p) == ~p.DeletionTimestamp.nil /\ p.Reason = NodeUnreachablePodReason

\* the table `phases` of kube_pod_status_phase
phases(p) ==
    <<[v |-> p.Phase = PodPending, n |-> PodPending],
      [v |-> p.Phase = PodSucceeded, n |-> PodSucceeded],
      [v |-> p.Phase = PodFailed, n |-> PodFailed],
      [v |-> p.Phase = PodRunning /\ ~unreachable(p), n |-> PodRunning],
      [v |-> p.Phase = PodUnknown \/ unreachable(p), n |-> PodUnknown]>>

kube_pod_status_phase(p) ==
    IF p.Phase = "" THEN Ok(<<>>)
    ELSE Ok([i \in 1..Len(phases(p)) |->
                Metric("kube_pod_status_phase", <<"phase">>, <<phases(p)[i].n>>,
                       boolFloat64(phases(p)[i].v))])

\* addConditionMetrics: the tri-state encoding, three samples without name or keys
addConditionMetrics(cs) ==
    <<Metric("", <<>>, <<"true">>, boolFloat64(cs = ConditionTrue)),
      Metric("", <<>>, <<"false">>, boolFloat64(cs = ConditionFalse)),
      Metric("", <<>>, <<"unknown">>, boolFloat64(cs = ConditionUnknown))>>

\* Faulty variant of conditionFamily: the switch on the condition type is missing
conditionFamilyAnyType(p, type, name) ==
    Concat([i \in 1..Len(p.Conditions) |->
              LET ms == addConditionMetrics(p.Conditions[i].Status)
              IN [j \in 1..Len(ms) |->
                    [ms[j] EXCEPT !.Name = name, !.LabelKeys = Own(<<"condition">>)]]])

\* the loop shared by kube_pod_status_ready and kube_pod_status_scheduled:
\* every condition of type `type` contributes its three samples
conditionFamily(p, type, name) ==
    Concat([i \in 1..Len(p.Conditions) |->
              IF p.Conditions[i].Type = type
              THEN LET ms == addConditionMetrics(p.Conditions[i].Status)
                   IN [j \in 1..Len(ms) |->
                         [ms[j] EXCEPT !.Name = name, !.LabelKeys = Own(<<"condition">>)]]
              ELSE <<>>])

kube_pod_status_ready(p) == Ok(conditionFamily(p, PodReady, "kube_pod_status_ready"))

kube_pod_status_scheduled(p) ==
    Ok(conditionFamily(p, PodScheduled, "kube_pod_status_scheduled"))

\* Faulty variant of waitingReason: any waiting container matches every reason
waitingReasonAny(cs, reason) == ~cs.Waiting.nil

waitingReason(cs, reason) ==
    IF cs.Waiting.nil THEN FALSE ELSE cs.Waiting.v = reason

kube_pod_container_status_waiting_reason(p) ==
    Ok(Concat([c \in 1..Len(p.ContainerStatuses) |->
                 [r \in 1..Len(containerWaitingReasons) |->
                     Metric("kube_pod_container_status_waiting_reason",
                            <<"container", "reason">>,
                            <<p.ContainerStatuses[c].Name, containerWaitingReasons[r]>>,
                            boolFloat64(waitingReason(p.ContainerStatuses[c],
                                                      containerWaitingReasons[r])))]]))

----------------------------------------------------------------------------
(* The default-label wrappers *)

\* for _, m := range metricFamily { m.LabelKeys = append(defaults, m.LabelKeys...);
\*                                  m.LabelValues = append(identity, m.LabelValues...) }
RECURSIVE prependLoop(_, _, _, _, _)
prependLoop(defaults, identity, family, i, h) ==
    IF i > Len(family) THEN [result |-> Ok(family), heap |-> h]
    ELSE LET m == family[i]
             a == GoAppend(defaults, Read(m.LabelKeys, h), h)
             wrapped == [m EXCEPT !.LabelKeys = a.slice,
                                  !.LabelValues = identity \o m.LabelValues]
         IN prependLoop(defaults, identity, [family EXCEPT ![i] = wrapped], i + 1, a.heap)

\* Faulty variant of wrapPodFunc: the identity values in the wrong order
wrapPodFuncSwapped(r, pod, h) ==
    IF r.status = "panic" THEN [result |-> Panic, heap |-> h]
    ELSE prependLoop(descPodLabelsDefaultLabels, <<pod.Name, pod.Namespace>>,
                     r.family, 1, h)

\* r is what the wrapped function f returned for pod (a panic in f unwinds the wrapper)
wrapPodFunc(r, pod, h) ==
    IF r.status = "panic" THEN [result |-> Panic, heap |-> h]
    ELSE prependLoop(descPodLabelsDefaultLabels, <<pod.Namespace, pod.Name>>,
                     r.family, 1, h)

podMetricFamilies ==
    <<"kube_pod_info", "kube_pod_owner", "kube_pod_status_phase", "kube_pod_status_ready",
      "kube_pod_status_scheduled", "kube_pod_container_status_waiting_reason">>

\* the function that the entry `name` of podMetricFamilies hands to wrapPodFunc
podFunc(name, p) ==
    CASE name = "kube_pod_info" -> kube_pod_info(p)
      [] name = "kube_pod_owner" -> kube_pod_owner(p)
      [] name = "kube_pod_status_phase" -> kube_pod_status_phase(p)
      [] name = "kube_pod_status_ready" -> kube_pod_status_ready(p)
      [] name = "kube_pod_status_scheduled" -> kube_pod_status_scheduled(p)
      [] name = "kube_pod_container_status_waiting_reason" ->
            kube_pod_container_status_waiting_reason(p)

\* GenerateFunc of the entry `name` of podMetricFamilies
podGenerateFunc(name, p, h) == wrapPodFunc(podFunc(name, p), p, h)

----------------------------------------------------------------------------
(* Kubernetes labels and annotations as Prometheus labels *)

\* the label and annotation names of the model, in sort.Strings order
LabelNames == <<"app", "tier">>

sortedKeys(m) == SelectSeq(LabelNames, LAMBDA k : k \in DOMAIN m)

\* keys sorted, prefixed with "label_"; values in the order of their keys
kubeLabelsToPrometheusLabels(labels) ==
    LET ks == sortedKeys(labels)
    IN [keys |-> [i \in 1..Len(ks) |-> "label_" \o ks[i]],
        values |-> [i \in 1..Len(ks) |-> labels[ks[i]]]]

kubeAnnotationsToPrometheusAnnotations(annotations) ==
    LET ks == sortedKeys(annotations)
    IN [keys |-> [i \in 1..Len(ks) |-> "annotation_" \o ks[i]],
        values |-> [i \in 1..Len(ks) |-> annotations[ks[i]]]]

----------------------------------------------------------------------------
(* The deployment collector *)

descDeploymentLabelsName == "kube_deployment_labels"

descDeploymentLabelsDefaultLabels ==
    SliceLiteral("descDeploymentLabelsDefaultLabels", <<"namespace", "deployment">>)

\* a Metric literal without LabelKeys and LabelValues: both are nil slices
kube_deployment_created(d) ==
    IF ~d.CreationTimestamp.zero
    THEN Ok(<<Metric("kube_deployment_created", <<>>, <<>>,
                     Float64(d.CreationTimestamp.unix))>>)
    ELSE Ok(<<>>)

kube_deployment_status_replicas(d) ==
    Ok(<<Metric("kube_deployment_status_replicas", <<>>, <<>>, Float64(d.Replicas))>>)

kube_deployment_status_replicas_available(d) ==
    Ok(<<Metric("kube_deployment_status_replicas_available", <<>>, <<>>,
                Float64(d.AvailableReplicas))>>)

kube_deployment_status_replicas_unavailable(d) ==
    Ok(<<Metric("kube_deployment_status_replicas_unavailable", <<>>, <<>>,
                Float64(d.UnavailableReplicas))>>)

\* float64(*d.Spec.Replicas): dereferencing a nil pointer panics
kube_deployment_spec_replicas(d) ==
    IF d.SpecReplicas.nil THEN Panic
    ELSE Ok(<<Metric("kube_deployment_spec_replicas", <<>>, <<>>,
                     Float64(d.SpecReplicas.v))>>)

kube_deployment_labels(d) ==
    LET l == kubeLabelsToPrometheusLabels(d.Labels)
    IN Ok(<<Metric(descDeploymentLabelsName, l.keys, l.values, 1)>>)

wrapDeploymentFunc(r, deployment, h) ==
    IF r.status = "panic" THEN [result |-> Panic, heap |-> h]
    ELSE prependLoop(descDeploymentLabelsDefaultLabels,
                     <<deployment.Namespace, deployment.Name>>, r.family, 1, h)

deploymentMetricFamilies ==
    <<"kube_deployment_created", "kube_deployment_status_replicas",
      "kube_deployment_status_replicas_available",
      "kube_deployment_status_replicas_unavailable",
      "kube_deployment_spec_replicas", descDeploymentLabelsName>>

deploymentFunc(name, d) ==
    CASE name = "kube_deployment_created" -> kube_deployment_created(d)
      [] name = "kube_deployment_status_replicas" -> kube_deployment_status_replicas(d)
      [] name = "kube_deployment_status_replicas_available" ->
            kube_deployment_status_replicas_available(d)
      [] name = "kube_deployment_status_replicas_unavailable" ->
            kube_deployment_status_replicas_unavailable(d)
      [] name = "kube_deployment_spec_replicas" -> kube_deployment_spec_replicas(d)
      [] name = descDeploymentLabelsName -> kube_deployment_labels(d)

deploymentGenerateFunc(name, d, h) == wrapDeploymentFunc(deploymentFunc(name, d), d, h)

----------------------------------------------------------------------------
(* The namespace collector *)

descNamespaceLabelsName == "kube_namespace_labels"
descNamespaceAnnotationsName == "kube_namespace_annotations"

descNamespaceLabelsDefaultLabels ==
    SliceLiteral("descNamespaceLabelsDefaultLabels", <<"namespace">>)

kube_namespace_labels(n) ==
    LET l == kubeLabelsToPrometheusLabels(n.Labels)
    IN Ok(<<Metric(descNamespaceLabelsName, l.keys, l.values, 1)>>)

kube_namespace_annotations(n) ==
    LET a == kubeAnnotationsToPrometheusAnnotations(n.Annotations)
    IN Ok(<<Metric(descNamespaceAnnotationsName, a.keys, a.values, 1)>>)

wrapNamespaceFunc(r, namespace, h) ==
    IF r.status = "panic" THEN [result |-> Panic, heap |-> h]
    ELSE prependLoop(descNamespaceLabelsDefaultLabels, <<namespace.Name>>, r.family, 1, h)

namespaceMetricFamilies == <<descNamespaceLabelsName, descNamespaceAnnotationsName>>

namespaceFunc(name, n) ==
    CASE name = descNamespaceLabelsName -> kube_namespace_labels(n)
      [] name = descNamespaceAnnotationsName -> kube_namespace_annotations(n)

namespaceGenerateFunc(name, n, h) == wrapNamespaceFunc(namespaceFunc(name, n), n, h)

----------------------------------------------------------------------------
(* The objects the model draws from.  Each generator reads one aspect of   *)
(* an object, so the domain varies one aspect at a time around a base.     *)

Identities == {[Namespace |-> "ns1", Name |-> "a"], [Namespace |-> "ns2", Name |-> "b"]}
BaseIdentity == [Namespace |-> "ns1", Name |-> "a"]

NoTime == NilPtr(0)
SomeTime == PtrTo(1)

BasePod(id) ==
    [kind |-> "pod", Namespace |-> id.Namespace, Name |-> id.Name,
     UID |-> "uid-" \o id.Name, HostIP |-> "10.0.0.1", PodIP |-> "10.1.0.1",
     NodeName |-> "node1", Phase |-> PodRunning, Reason |-> "",
     DeletionTimestamp |-> NoTime, Conditions |-> <<>>, OwnerReferences |-> <<>>,
     ContainerStatuses |-> <<>>]

PhaseValues ==
    {"", PodPending, PodSucceeded, PodFailed, PodRunning, PodUnknown, "Evicted"}
ReasonValues == {"", NodeUnreachablePodReason, "Evicted"}
ConditionValues ==
    [Type : {PodReady, PodScheduled},
     Status : {ConditionTrue, ConditionFalse, ConditionUnknown}]
OwnerValues ==
    [Kind : {"", "ReplicaSet"}, Name : {"r1"},
     Controller : {NilPtr(FALSE), PtrTo(TRUE), PtrTo(FALSE)}]
WaitingValues ==
    {NilPtr("")} \cup {PtrTo(r) : r \in {containerWaitingReasons[i] : i \in 1..5}}
                 \cup {PtrTo("PodInitializing")}
ContainerNames == <<"c1", "c2", "c3", "c4">>

Pods ==
    {[BasePod(id) EXCEPT !.Phase = ph, !.DeletionTimestamp = dt, !.Reason = rs] :
        id \in Identities, ph \in PhaseValues, dt \in {NoTime, SomeTime},
        rs \in ReasonValues}
    \cup {[BasePod(BaseIdentity) EXCEPT !.Conditions = cs] :
            cs \in SeqsUpTo(ConditionValues, MaxConditions)}
    \cup {[BasePod(BaseIdentity) EXCEPT !.OwnerReferences = os] :
            os \in SeqsUpTo(OwnerValues, MaxOwners)}
    \cup {[BasePod(BaseIdentity) EXCEPT !.ContainerStatuses =
                [i \in 1..Len(ws) |-> [Name |-> ContainerNames[i], Waiting |-> ws[i]]]] :
            ws \in SeqsUpTo(WaitingValues, MaxContainers)}
    \cup {[BasePod(BaseIdentity) EXCEPT !.HostIP = "", !.PodIP = "", !.NodeName = ""]}

LabelMaps == UNION {[S -> {"x", "y"}] : S \in SUBSET {"app", "tier"}}

ZeroTime == [zero |-> TRUE, unix |-> 0]
TimeAt(u) == [zero |-> FALSE, unix |-> u]

BaseDeployment(id) ==
    [kind |-> "deployment", Namespace |-> id.Namespace, Name |-> id.Name,
     CreationTimestamp |-> TimeAt(1500), Replicas |-> 0, AvailableReplicas |-> 0,
     UnavailableReplicas |-> 0, SpecReplicas |-> PtrTo(1), Labels |-> <<>>]

Deployments ==
    {[BaseDeployment(id) EXCEPT !.CreationTimestamp = t] :
        id \in Identities, t \in {ZeroTime, TimeAt(0), TimeAt(1500)}}
    \cup {[BaseDeployment(BaseIdentity) EXCEPT !.Replicas = r, !.AvailableReplicas = a,
                                               !.UnavailableReplicas = u] :
            r \in 0..MaxReplicas, a \in 0..MaxReplicas, u \in 0..MaxReplicas}
    \cup {[BaseDeployment(BaseIdentity) EXCEPT !.SpecReplicas = sr] :
            sr \in {NilPtr(0)} \cup {PtrTo(n) : n \in 0..MaxReplicas}}
    \cup {[BaseDeployment(BaseIdentity) EXCEPT !.Labels = l] : l \in LabelMaps}

Namespaces ==
    {[kind |-> "namespace", Name |-> n, Labels |-> l, Annotations |-> a] :
        n \in {"ns1", "ns2"}, l \in LabelMaps, a \in LabelMaps}

Objects == Pods \cup Deployments \cup Namespaces

Range(s) == {s[i] : i \in 1..Len(s)}

FamilyNames ==
    Range(podMetricFamilies) \cup Range(deploymentMetricFamilies)
        \cup Range(namespaceMetricFamilies)

\* the families registered for an object's kind
FamiliesOf(o) ==
    CASE o.kind = "pod" -> Range(podMetricFamilies)
      [] o.kind = "deployment" -> Range(deploymentMetricFamilies)
      [] o.kind = "namespace" -> Range(namespaceMetricFamilies)

GlobalSlices ==
    {descPodLabelsDefaultLabels, descDeploymentLabelsDefaultLabels,
     descNamespaceLabelsDefaultLabels}

\* the backing arrays as the package initialisation leaves them
InitialHeap ==
    [r \in {g.ref : g \in GlobalSlices} |->
        LET g == CHOOSE x \in GlobalSlices : x.ref = r
        IN [i \in 1..g.cap |-> IF i <= g.len THEN g.init[i] ELSE ""]]

----------------------------------------------------------------------------
(* The aggregation path: one registered generator at a time on the current *)
(* object, in any order; then the next cached object.                      *)

InitGen ==
    /\ obj \in Objects
    /\ out = [n \in FamilyNames |-> NotRun]
    /\ heap = InitialHeap

GeneratePod(name) ==
    /\ obj.kind = "pod"
    /\ LET r == podGenerateFunc(name, obj, heap)
       IN /\ out' = [out EXCEPT ![name] = r.result]
          /\ heap' = r.heap
    /\ UNCHANGED <<obj, syncVars>>

\* a nil dereference in the generator panics: the call yields no family; the outcome
\* is recorded and the restarted process, whose package state is the same, goes on
GenerateDeployment(name) ==
    /\ obj.kind = "deployment"
    /\ LET r == deploymentGenerateFunc(name, obj, heap)
       IN /\ out' = [out EXCEPT ![name] = r.result]
          /\ heap' = r.heap
    /\ UNCHANGED <<obj, syncVars>>

GenerateNamespace(name) ==
    /\ obj.kind = "namespace"
    /\ LET r == namespaceGenerateFunc(name, obj, heap)
       IN /\ out' = [out EXCEPT ![name] = r.result]
          /\ heap' = r.heap
    /\ UNCHANGED <<obj, syncVars>>

\* every family of the current object has been generated: map the next object
NextObject(o) ==
    /\ \A n \in FamiliesOf(obj) : out[n].status # "notrun"
    /\ obj' = o
    /\ out' = [n \in FamilyNames |-> NotRun]
    /\ UNCHANGED <<heap, syncVars>>

----------------------------------------------------------------------------
(* The list/watch pairs and the store they feed *)

\* metav1.NamespaceAll
NamespaceAll == ""

\* the objects of the API server: identifier -> kind and namespace
Ids == {"p1", "p2", "d1", "d2", "n1"}
KindOf(id) ==
    CASE id \in {"p1", "p2"} -> "pod"
      [] id \in {"d1", "d2"} -> "deployment"
      [] id = "n1" -> "namespace"
NsOf(id) ==
    CASE id \in {"p1", "d1"} -> "ns1"
      [] id \in {"p2", "d2"} -> "ns2"
      [] id = "n1" -> ""

\* kubeClient.CoreV1().Pods(ns): the pods of namespace ns, all pods for NamespaceAll
PodsIn(ns) == {id \in Ids : KindOf(id) = "pod" /\ (ns = NamespaceAll \/ NsOf(id) = ns)}
DeploymentsIn(ns) ==
    {id \in Ids : KindOf(id) = "deployment" /\ (ns = NamespaceAll \/ NsOf(id) = ns)}
AllNamespaces == {id \in Ids : KindOf(id) = "namespace"}

\* Faulty variant of createPodListWatch: the list ignores the namespace
createPodListWatchListsAll(srv, ns) ==
    [ListFunc |-> {id \in PodsIn(NamespaceAll) : srv[id] # 0}, WatchFunc |-> PodsIn(ns)]

\* ListFunc: the identifiers a list returns; WatchFunc: those a watch reports on
createPodListWatch(srv, ns) ==
    [ListFunc |-> {id \in PodsIn(ns) : srv[id] # 0}, WatchFunc |-> PodsIn(ns)]

createDeploymentListWatch(srv, ns) ==
    [ListFunc |-> {id \in DeploymentsIn(ns) : srv[id] # 0}, WatchFunc |-> DeploymentsIn(ns)]

createNamespaceListWatch(srv, ns) ==
    [ListFunc |-> {id \in AllNamespaces : srv[id] # 0}, WatchFunc |-> AllNamespaces]

ListWatchOf(task, srv) ==
    CASE task.kind = "pod" -> createPodListWatch(srv, task.ns)
      [] task.kind = "deployment" -> createDeploymentListWatch(srv, task.ns)
      [] task.kind = "namespace" -> createNamespaceListWatch(srv, task.ns)

Causes == {"eof", "error", "expired"}

InitSync ==
    /\ server \in [Ids -> {0}]
    /\ rv = 0
    /\ store = [id \in Ids |-> 0]
    /\ watermark = 0
    /\ stream = "init"
    /\ events = <<>>
    /\ listed = "no"
    /\ cause = "none"
    /\ dropped = {}
    /\ lw \in [kind : {"pod", "deployment", "namespace"}, ns : {NamespaceAll, "ns1"}]

\* a write on the API server: the object gets the next resource version (0 = deleted);
\* an open watch that covers the object queues the event
ServerWrite(id, type) ==
    /\ rv < MaxRV
    /\ \/ type = "Added" /\ server[id] = 0
       \/ type \in {"Modified", "Deleted"} /\ server[id] # 0
    /\ rv' = rv + 1
    /\ server' = [server EXCEPT ![id] = IF type = "Deleted" THEN 0 ELSE rv + 1]
    /\ IF stream = "watching" /\ id \in ListWatchOf(lw, server).WatchFunc
       THEN /\ Len(events) < MaxEvents
            /\ events' = Append(events, [type |-> type, id |-> id, version |-> rv + 1])
       ELSE events' = events
    /\ listed' = "no"
    /\ UNCHANGED <<store, watermark, stream, cause, dropped, lw, genVars>>

\* the next event of the stream: Added and Modified upsert, Deleted removes
Deliver ==
    /\ stream = "watching"
    /\ events # <<>>
    /\ LET e == Head(events)
       IN /\ store' = [store EXCEPT ![e.id] = IF e.type = "Deleted" THEN 0 ELSE e.version]
          /\ watermark' = e.version
    /\ events' = Tail(events)
    /\ listed' = "no"
    /\ UNCHANGED <<server, rv, stream, cause, dropped, lw, genVars>>

\* the stream ends: end of stream, transport error, or resource version too old;
\* the events it had not delivered are lost
Terminate(c) ==
    /\ stream = "watching"
    /\ stream' = "terminated"
    /\ cause' = c
    /\ events' = <<>>
    /\ listed' = "no"
    /\ UNCHANGED <<server, rv, store, watermark, dropped, lw, genVars>>

\* a full list replaces the whole mapping and records the list's resource version;
\* the watch is then opened from that version (start, restart and periodic re-list)
ListAndWatch ==
    /\ LET ids == ListWatchOf(lw, server).ListFunc
       IN /\ store' = [id \in Ids |-> IF id \in ids THEN server[id] ELSE 0]
          /\ dropped' = {id \in Ids : store[id] # 0 /\ id \notin ids}
    /\ watermark' = rv
    /\ stream' = "watching"
    /\ events' = <<>>
    /\ listed' = CASE stream = "init" -> "start"
                    [] stream = "terminated" -> "restart"
                    [] stream = "watching" -> "resync"
    /\ UNCHANGED <<server, rv, cause, lw, genVars>>

----------------------------------------------------------------------------
(* Specifications *)

\* the synchronisation task at rest, for the aggregation path
SyncIdle ==
    /\ server = [id \in Ids |-> 0]
    /\ rv = 0
    /\ store = [id \in Ids |-> 0]
    /\ watermark = 0
    /\ stream = "init"
    /\ events = <<>>
    /\ listed = "no"
    /\ cause = "none"
    /\ dropped = {}
    /\ lw = [kind |-> "pod", ns |-> NamespaceAll]

\* the aggregation path at rest, for the synchronisation task
GenIdle ==
    /\ obj = BasePod(BaseIdentity)
    /\ out = [n \in FamilyNames |-> NotRun]
    /\ heap = InitialHeap

Init == InitGen /\ SyncIdle

Next ==
    \/ \E name \in Range(podMetricFamilies) : GeneratePod(name)
    \/ \E name \in Range(deploymentMetricFamilies) : GenerateDeployment(name)
    \/ \E name \in Range(namespaceMetricFamilies) : GenerateNamespace(name)
    \/ \E o \in Objects : NextObject(o)

Spec == Init /\ [][Next]_vars

InitStore == GenIdle /\ InitSync

NextSync ==
    \/ \E id \in Ids, type \in {"Added", "Modified", "Deleted"} : ServerWrite(id, type)
    \/ Deliver
    \/ \E c \in Causes : Terminate(c)
    \/ ListAndWatch

SpecSync == InitStore /\ [][NextSync]_vars

----------------------------------------------------------------------------
(* Properties *)

\* what the function handed to the wrapper returns for object o
FuncOf(name, o) ==
    CASE o.kind = "pod" -> podFunc(name, o)
      [] o.kind = "deployment" -> deploymentFunc(name, o)
      [] o.kind = "namespace" -> namespaceFunc(name, o)

\* the registered generator `name` on object o, given the backing arrays h
GenerateFuncOf(name, o, h) ==
    CASE o.kind = "pod" -> podGenerateFunc(name, o, h)
      [] o.kind = "deployment" -> deploymentGenerateFunc(name, o, h)
      [] o.kind = "namespace" -> namespaceGenerateFunc(name, o, h)

\* a result as a scrape reads it: every sample with the label keys its slice denotes
Samples(r, h) ==
    [status |-> r.status,
     family |-> [i \in 1..Len(r.family) |->
                    [Name |-> r.family[i].Name, LabelKeys |-> Read(r.family[i].LabelKeys, h),
                     LabelValues |-> r.family[i].LabelValues, Value |-> r.family[i].Value]]]

Done(name) == out[name].status = "ok"
Fam(name) == Samples(out[name], heap).family
ValuesOf(name) == [i \in 1..Len(Fam(name)) |-> Fam(name)[i].Value]

DeclaredDefaultKeys(o) ==
    CASE o.kind = "pod" -> <<"namespace", "pod">>
      [] o.kind = "deployment" -> <<"namespace", "deployment">>
      [] o.kind = "namespace" -> <<"namespace">>

IdentityValues(o) ==
    IF o.kind = "namespace" THEN <<o.Name>> ELSE <<o.Namespace, o.Name>>

\* C1: every sample of a wrapped generator carries the kind's declared default keys
\* followed by exactly the keys the inner function produced, and the object's
\* identity values followed by exactly the values the inner function produced.
C1_DefaultLabelsFirst ==
    \A name \in FamiliesOf(obj) :
        Done(name) =>
            LET inner == FuncOf(name, obj).family
            IN /\ Len(Fam(name)) = Len(inner)
               /\ \A i \in 1..Len(inner) :
                    /\ Fam(name)[i].LabelKeys =
                            DeclaredDefaultKeys(obj) \o inner[i].LabelKeys.elems
                    /\ Fam(name)[i].LabelValues =
                            IdentityValues(obj) \o inner[i].LabelValues
                    /\ Len(Fam(name)[i].LabelKeys) = Len(Fam(name)[i].LabelValues)

\* a sample without labels of its own, and a sample with six, both wrapped
C1_Witness ==
    \/ /\ obj.kind = "deployment"
       /\ Done("kube_deployment_created")
       /\ Len(Fam("kube_deployment_created")) = 1
       /\ Fam("kube_deployment_created")[1].LabelKeys = <<"namespace", "deployment">>
       /\ Done("kube_deployment_labels")
       /\ Len(Fam("kube_deployment_labels")[1].LabelKeys) = 4
       /\ obj.Namespace = "ns1"

\* C2: an object that lacks the optional field a family depends on yields no sample
\* of that family, and the wrapper returns as many samples as the inner function.
C2_AbsentFieldNoSample ==
    /\ \A name \in FamiliesOf(obj) :
          Done(name) => Len(out[name].family) = Len(FuncOf(name, obj).family)
    /\ obj.kind = "pod" =>
          /\ (Done("kube_pod_status_phase") /\ obj.Phase = "")
                => out["kube_pod_status_phase"].family = <<>>
          /\ (Done("kube_pod_status_ready")
                /\ \A i \in 1..Len(obj.Conditions) : obj.Conditions[i].Type # "Ready")
                => out["kube_pod_status_ready"].family = <<>>
          /\ (Done("kube_pod_status_scheduled")
                /\ \A i \in 1..Len(obj.Conditions) : obj.Conditions[i].Type # "PodScheduled")
                => out["kube_pod_status_scheduled"].family = <<>>
          /\ (Done("kube_pod_container_status_waiting_reason") /\ obj.ContainerStatuses = <<>>)
                => out["kube_pod_container_status_waiting_reason"].family = <<>>
    /\ (obj.kind = "deployment" /\ Done("kube_deployment_created")
            /\ obj.CreationTimestamp.zero)
          => out["kube_deployment_created"].family = <<>>

\* a pod without phase whose phase family has been generated
C2_Witness ==
    /\ obj.kind = "pod"
    /\ obj.Phase = ""
    /\ Done("kube_pod_status_phase")
    /\ Done("kube_pod_status_ready")
    /\ obj.Conditions = <<>>

TriState(name, type) ==
    LET idx == {i \in 1..Len(obj.Conditions) : obj.Conditions[i].Type = type}
        st == obj.Conditions[CHOOSE i \in idx : TRUE].Status
    IN (Done(name) /\ Cardinality(idx) = 1) =>
          /\ Len(Fam(name)) = 3
          /\ \A i \in 1..3 :
                /\ Fam(name)[i].Name = name
                /\ Fam(name)[i].LabelKeys = <<"namespace", "pod", "condition">>
                /\ Fam(name)[i].LabelValues =
                        <<obj.Namespace, obj.Name, <<"true", "false", "unknown">>[i]>>
                /\ Fam(name)[i].Value = IF st = <<"True", "False", "Unknown">>[i] THEN 1 ELSE 0
          /\ Cardinality({i \in 1..3 : Fam(name)[i].Value = 1}) = 1

\* C3: a pod with exactly one Ready (resp. PodScheduled) condition yields three samples,
\* condition = true, false, unknown; the one matching the status is 1, the others 0.
C3_TriStateExactlyOne ==
    obj.kind = "pod" =>
        /\ TriState("kube_pod_status_ready", "Ready")
        /\ TriState("kube_pod_status_scheduled", "PodScheduled")

\* a pod with one Ready condition of status False next to a PodScheduled condition
C3_Witness ==
    /\ obj.kind = "pod"
    /\ Len(obj.Conditions) = 2
    /\ obj.Conditions[1] = [Type |-> "PodScheduled", Status |-> "True"]
    /\ obj.Conditions[2] = [Type |-> "Ready", Status |-> "False"]
    /\ Done("kube_pod_status_ready")
    /\ ValuesOf("kube_pod_status_ready") = <<0, 1, 0>>

\* C4: no registered generator fails fatally on an object with an unset field.
C4_NoGeneratorPanics ==
    \A name \in FamilyNames : out[name].status # "panic"

GlobalsIntact ==
    /\ heap = InitialHeap
    /\ SubSeq(heap["descPodLabelsDefaultLabels"], 1, 2) = <<"namespace", "pod">>
    /\ SubSeq(heap["descDeploymentLabelsDefaultLabels"], 1, 2) = <<"namespace", "deployment">>
    /\ SubSeq(heap["descNamespaceLabelsDefaultLabels"], 1, 1) = <<"namespace">>

\* the samples held for the current object are those a fresh process would produce
IndependentOfHistory ==
    \A name \in FamiliesOf(obj) :
        out[name].status # "notrun" =>
            LET fresh == GenerateFuncOf(name, obj, InitialHeap)
            IN Samples(out[name], heap) = Samples(fresh.result, fresh.heap)

\* the samples held for the object read the same after any further call, a second
\* call of the same generator included
StableSamples ==
    \A name \in FamilyNames :
        (obj' = obj /\ out[name].status # "notrun" /\ out'[name].status # "notrun")
            => Samples(out'[name], heap') = Samples(out[name], heap)

ObjectNotModified ==
    (\E name \in FamilyNames : out'[name] # out[name] /\ out'[name].status # "notrun")
        => obj' = obj

\* C5: generating twice over unchanged objects gives identical samples, whatever was
\* generated before: no call changes the shared default-label slices, the object it
\* reads, or the samples of an earlier call.
C5_Idempotent ==
    /\ [](GlobalsIntact /\ IndependentOfHistory)
    /\ [][StableSamples /\ ObjectNotModified]_vars

\* a sample whose label keys share the backing array of the default labels, and a
\* later family generated for the same object
C5_Witness ==
    /\ obj.kind = "deployment"
    /\ Done("kube_deployment_created")
    /\ Len(out["kube_deployment_created"].family) = 1
    /\ out["kube_deployment_created"].family[1].LabelKeys.ref
            = "descDeploymentLabelsDefaultLabels"
    /\ Done("kube_deployment_labels")
    /\ Done("kube_deployment_status_replicas")

\* the objects the synchronisation task's list/watch pair covers
Covered(id) ==
    /\ KindOf(id) = lw.kind
    /\ lw.kind = "namespace" \/ lw.ns = "" \/ NsOf(id) = lw.ns

\* C6: after the watch stream terminates the store changes only by a fresh full list,
\* and once a list is applied the store holds exactly the covered objects the server
\* has, at their current versions.
C6_RestartConverges ==
    /\ [](listed # "no" =>
            /\ \A id \in Ids : store[id] = IF Covered(id) THEN server[id] ELSE 0
            /\ watermark = rv)
    /\ [][stream = "terminated" =>
            \/ listed' = "restart"
            \/ store' = store /\ watermark' = watermark /\ stream' = "terminated"]_vars

\* a restart whose list removed an object the store still held
C6_Witness ==
    /\ listed = "restart"
    /\ cause \in {"eof", "error", "expired"}
    /\ dropped # {}
    /\ \E id \in Ids : store[id] # 0

\* C7: a pod with a phase yields the five phase samples in order, at most one of them 1.
C7_PhaseMutuallyExclusive ==
    (obj.kind = "pod" /\ Done("kube_pod_status_phase") /\ obj.Phase # "") =>
        /\ Len(Fam("kube_pod_status_phase")) = 5
        /\ \A i \in 1..5 :
              Fam("kube_pod_status_phase")[i].LabelValues =
                 <<obj.Namespace, obj.Name,
                   <<"Pending", "Succeeded", "Failed", "Running", "Unknown">>[i]>>
        /\ Cardinality({i \in 1..5 : Fam("kube_pod_status_phase")[i].Value = 1}) <= 1

\* C8: a Running pod pending deletion with the unreachable-node reason reports Unknown
\* alone at 1; any other Running pod reports Running alone at 1.
C8_UnreachableOverride ==
    (obj.kind = "pod" /\ Done("kube_pod_status_phase") /\ obj.Phase = "Running") =>
        IF ~obj.DeletionTimestamp.nil /\ obj.Reason = "NodeLost"
        THEN ValuesOf("kube_pod_status_phase") = <<0, 0, 0, 0, 1>>
        ELSE ValuesOf("kube_pod_status_phase") = <<0, 0, 0, 1, 0>>

C8_Witness ==
    /\ obj.kind = "pod"
    /\ obj.Phase = "Running"
    /\ ~obj.DeletionTimestamp.nil
    /\ obj.Reason = "NodeLost"
    /\ Done("kube_pod_status_phase")
    /\ ValuesOf("kube_pod_status_phase") = <<0, 0, 0, 0, 1>>

\* C9: kube_pod_owner yields one sample of value 1 per owner reference, with that
\* owner's kind, name and controller flag ("false" when unset), and a single sample
\* with the three "<none>" values for a pod without owner references.
C9_OwnerSamples ==
    (obj.kind = "pod" /\ Done("kube_pod_owner")) =>
        LET f == Fam("kube_pod_owner")
            owners == obj.OwnerReferences
        IN /\ Len(f) >= 1
           /\ \A i \in 1..Len(f) :
                /\ f[i].Value = 1
                /\ f[i].LabelKeys =
                     <<"namespace", "pod", "owner_kind", "owner_name", "owner_is_controller">>
           /\ IF owners = <<>>
              THEN /\ Len(f) = 1
                   /\ f[1].LabelValues = <<obj.Namespace, obj.Name, "<none>", "<none>", "<none>">>
              ELSE /\ Len(f) = Len(owners)
                   /\ \A i \in 1..Len(owners) :
                        f[i].LabelValues =
                            <<obj.Namespace, obj.Name, owners[i].Kind, owners[i].Name,
                              IF ~owners[i].Controller.nil /\ owners[i].Controller.v
                              THEN "true" ELSE "false">>

\* two owner references, the first a controller, the second with the flag unset
C9_Witness ==
    /\ obj.kind = "pod"
    /\ Len(obj.OwnerReferences) = 2
    /\ ~obj.OwnerReferences[1].Controller.nil
    /\ obj.OwnerReferences[1].Controller.v
    /\ obj.OwnerReferences[2].Controller.nil
    /\ Done("kube_pod_owner")
    /\ Len(Fam("kube_pod_owner")) = 2

\* C10: every container status yields the five waiting-reason samples in list order,
\* 1 only for the container's own waiting reason, so at most one per container is 1
\* and none for a container not waiting or waiting for an unlisted reason.
C10_WaitingReason ==
    (obj.kind = "pod" /\ Done("kube_pod_container_status_waiting_reason")) =>
        LET f == Fam("kube_pod_container_status_waiting_reason")
            cs == obj.ContainerStatuses
            listedReasons == <<"ContainerCreating", "CrashLoopBackOff",
                               "CreateContainerConfigError", "ErrImagePull",
                               "ImagePullBackOff">>
        IN /\ Len(f) = 5 * Len(cs)
           /\ \A c \in 1..Len(cs) :
                /\ \A r \in 1..5 :
                     /\ f[5 * (c - 1) + r].LabelValues =
                            <<obj.Namespace, obj.Name, cs[c].Name, listedReasons[r]>>
                     /\ f[5 * (c - 1) + r].Value =
                            IF ~cs[c].Waiting.nil /\ cs[c].Waiting.v = listedReasons[r]
                            THEN 1 ELSE 0
                /\ Cardinality({r \in 1..5 : f[5 * (c - 1) + r].Value = 1}) <= 1
                /\ (cs[c].Waiting.nil \/ cs[c].Waiting.v \notin Range(listedReasons))
                      => \A r \in 1..5 : f[5 * (c - 1) + r].Value = 0

\* a container waiting for a reason outside the list next to one waiting for a listed one
C10_Witness ==
    /\ obj.kind = "pod"
    /\ Len(obj.ContainerStatuses) = 2
    /\ obj.ContainerStatuses[1].Waiting = PtrTo("PodInitializing")
    /\ obj.ContainerStatuses[2].Waiting = PtrTo("ErrImagePull")
    /\ Done("kube_pod_container_status_waiting_reason")
    /\ ValuesOf("kube_pod_container_status_waiting_reason") = <<0, 0, 0, 0, 0, 0, 0, 0, 1, 0>>

====
